---- MODULE Spec2Model ----
(***************************************************************************)
(* airgradient-influxdb: HTTP ingestion of AirGradient sensor readings     *)
(* into InfluxDB.  The model follows main() (startup, three goroutines,    *)
(* signal-driven shutdown) and mainHandler (decode, resolve id, enqueue).  *)
(* Strings that the code splits are sequences of one-character strings;    *)
(* the float field "atmp" is carried in hundredths.                        *)
(***************************************************************************)
EXTENDS Integers, Sequences, FiniteSets, TLC

\* ----------------------------------------------------------------------
\* Bounds
\* ----------------------------------------------------------------------
MaxRequests == 2
MaxIdLen == 3
MaxClock == 2

\* ----------------------------------------------------------------------
\* Program constants
\* ----------------------------------------------------------------------
DataChCap == 1
CancelChCap == 1
ErrChCap == 1
DefaultFlushInterval == 30
StatusOK == 200
StatusBadRequest == 400

Sentinel == <<"n", "u", "l", "l">>
Delim == ":"
IdChars == {"a", "b", Delim}
MeasurementName == "air_quality"

Range(s) == {s[i] : i \in 1..Len(s)}

\* vars["id"] when the handler is invoked without the route variable
AbsentId == <<"/">>

\* ----------------------------------------------------------------------
\* JSON bodies.  A body is unreadable, syntactically malformed, or an
\* object: a function from keys to values [t, v] with t the literal's kind.
\* ----------------------------------------------------------------------
JInt(n) == [t |-> "int", v |-> n]
JFloat(h) == [t |-> "float", v |-> h]
JStr == [t |-> "str", v |-> 0]
JNull == [t |-> "null", v |-> 0]
JTime(n) == [t |-> "time", v |-> n]

MalformedJSON == [k \in {"<syntax error>"} |-> JStr]
IsMalformed(obj) == "<syntax error>" \in DOMAIN obj

IntKeys == {"wifi", "rco2", "pm01", "pm02", "pm10", "pm003_count", "tvoc_index", "nox_index", "rhum"}
FloatKeys == {"atmp"}
TimeKeys == {"Ts"}

ZeroData ==
  [Id |-> <<>>, Ts |-> 0, Wifi |-> 0, C02 |-> 0, PM01 |-> 0, PM02 |-> 0, PM10 |-> 0,
   PM003 |-> 0, TVOC |-> 0, NOX |-> 0, Temp |-> 0, Hum |-> 0]

\* json.Unmarshal of one member into an int field
DecodeInt(obj, k, cur) ==
  IF k \in DOMAIN obj /\ obj[k].t = "int" THEN obj[k].v ELSE cur

\* json.Unmarshal of one member into the float64 field (hundredths)
DecodeFloat(obj, k, cur) ==
  IF k \in DOMAIN obj /\ obj[k].t = "int" THEN 100 * obj[k].v
  ELSE IF k \in DOMAIN obj /\ obj[k].t = "float" THEN obj[k].v
  ELSE cur

\* json.Unmarshal of one member into the time.Time field
DecodeTime(obj, k, cur) ==
  IF k \in DOMAIN obj /\ obj[k].t = "time" THEN obj[k].v ELSE cur

\* a member whose literal does not fit the Go type of its field
TypeMismatch(obj) ==
  \/ \E k \in DOMAIN obj \cap IntKeys : obj[k].t \notin {"int", "null"}
  \/ \E k \in DOMAIN obj \cap FloatKeys : obj[k].t \notin {"int", "float", "null"}
  \/ \E k \in DOMAIN obj \cap TimeKeys : obj[k].t \notin {"time", "null"}

\* json.Unmarshal(b, &data): err and the struct as decoded
Unmarshal(obj) ==
  IF IsMalformed(obj) THEN [err |-> TRUE, data |-> ZeroData]
  ELSE [err |-> TypeMismatch(obj),
        data |-> [Id |-> <<>>,
                  Ts |-> DecodeTime(obj, "Ts", 0),
                  Wifi |-> DecodeInt(obj, "wifi", 0),
                  C02 |-> DecodeInt(obj, "rco2", 0),
                  PM01 |-> DecodeInt(obj, "pm01", 0),
                  PM02 |-> DecodeInt(obj, "pm02", 0),
                  PM10 |-> DecodeInt(obj, "pm10", 0),
                  PM003 |-> DecodeInt(obj, "pm003_count", 0),
                  TVOC |-> DecodeInt(obj, "tvoc_index", 0),
                  NOX |-> DecodeInt(obj, "nox_index", 0),
                  Temp |-> DecodeFloat(obj, "atmp", 0),
                  Hum |-> DecodeInt(obj, "rhum", 0)]]

\* ----------------------------------------------------------------------
\* strings.Split(id, ":") and the identifier resolution of mainHandler
\* ----------------------------------------------------------------------
RECURSIVE SplitFrom(_, _, _)
SplitFrom(s, i, cur) ==
  IF i > Len(s) THEN <<cur>>
  ELSE IF s[i] = Delim THEN <<cur>> \o SplitFrom(s, i + 1, <<>>)
  ELSE SplitFrom(s, i + 1, Append(cur, s[i]))

Split(s) == SplitFrom(s, 1, <<>>)

\* any segment with a delimiter is accepted
ResolveId_AtLeastTwo(id) ==
  IF id # AbsentId /\ Len(Split(id)) >= 2 THEN Split(id)[2] ELSE Sentinel

ResolveId(id) ==
  IF id # AbsentId /\ Len(Split(id)) = 2 THEN Split(id)[2] ELSE Sentinel

\* ----------------------------------------------------------------------
\* Configuration and InfluxConnect
\* ----------------------------------------------------------------------
\* the write destination is not validated
InfluxConnect_NoDestCheck(cfg) ==
  [err |-> FALSE, auth |-> cfg.Token,
   writeDest |-> IF cfg.Bucket # "" THEN cfg.Bucket
                 ELSE cfg.Database \o "/" \o cfg.RetentionPolicy,
   flushInterval |-> cfg.FlushInterval]

\* the v1 settings are looked at before the v2 ones
InfluxConnect_V1First(cfg) ==
  LET auth == IF cfg.Username # "" /\ cfg.Password # ""
              THEN cfg.Username \o ":" \o cfg.Password
              ELSE cfg.Token
      fi == IF cfg.FlushInterval = 0 THEN DefaultFlushInterval ELSE cfg.FlushInterval
  IN IF cfg.Database # "" /\ cfg.RetentionPolicy # ""
     THEN [err |-> FALSE, auth |-> auth,
           writeDest |-> cfg.Database \o "/" \o cfg.RetentionPolicy, flushInterval |-> fi]
     ELSE IF cfg.Bucket # ""
          THEN [err |-> FALSE, auth |-> auth, writeDest |-> cfg.Bucket, flushInterval |-> fi]
          ELSE [err |-> TRUE, auth |-> "", writeDest |-> "", flushInterval |-> cfg.FlushInterval]

InfluxConnect(cfg) ==
  LET auth == IF cfg.Token # "" THEN cfg.Token
              ELSE IF cfg.Username # "" /\ cfg.Password # ""
                   THEN cfg.Username \o ":" \o cfg.Password
                   ELSE ""
      fi == IF cfg.FlushInterval = 0 THEN DefaultFlushInterval ELSE cfg.FlushInterval
  IN IF cfg.Bucket # ""
     THEN [err |-> FALSE, auth |-> auth, writeDest |-> cfg.Bucket, flushInterval |-> fi]
     ELSE IF cfg.Database # "" /\ cfg.RetentionPolicy # ""
          THEN [err |-> FALSE, auth |-> auth,
                writeDest |-> cfg.Database \o "/" \o cfg.RetentionPolicy, flushInterval |-> fi]
          ELSE [err |-> TRUE, auth |-> "", writeDest |-> "", flushInterval |-> cfg.FlushInterval]

\* the point is given no time of its own: the zero time is passed
NewPoint_NoTime(dataPoint) ==
  [measurement |-> MeasurementName,
   tags |-> [id |-> dataPoint.Id],
   fields |-> [wifi |-> dataPoint.Wifi, co2 |-> dataPoint.C02, pm1 |-> dataPoint.PM01,
               pm25 |-> dataPoint.PM02, pm10 |-> dataPoint.PM10, pm003 |-> dataPoint.PM003,
               tvoc |-> dataPoint.TVOC, nox |-> dataPoint.NOX, temp |-> dataPoint.Temp,
               rel_humidity |-> dataPoint.Hum],
   ts |-> 0]

\* influx.NewPoint(...) as built by the Batch Writer
NewPoint(dataPoint) ==
  [measurement |-> MeasurementName,
   tags |-> [id |-> dataPoint.Id],
   fields |-> [wifi |-> dataPoint.Wifi, co2 |-> dataPoint.C02, pm1 |-> dataPoint.PM01,
               pm25 |-> dataPoint.PM02, pm10 |-> dataPoint.PM10, pm003 |-> dataPoint.PM003,
               tvoc |-> dataPoint.TVOC, nox |-> dataPoint.NOX, temp |-> dataPoint.Temp,
               rel_humidity |-> dataPoint.Hum],
   ts |-> dataPoint.Ts]

\* ----------------------------------------------------------------------
\* Inputs: configuration files and requests
\* ----------------------------------------------------------------------
Cfg(readable, bucket, db, rp, token, user, pass, fi, prefix) ==
  [readable |-> readable, Bucket |-> bucket, Database |-> db, RetentionPolicy |-> rp,
   Token |-> token, Username |-> user, Password |-> pass, FlushInterval |-> fi,
   MeasurementPrefix |-> prefix]

ExampleCfg == Cfg(TRUE, "mybucket", "mydb", "autogen", "mytoken", "myuser", "mypass", 30, "prefix_")
V1Cfg == Cfg(TRUE, "", "mydb", "autogen", "", "myuser", "mypass", 0, "")
NoDestCfg == Cfg(TRUE, "", "mydb", "", "mytoken", "", "", 30, "")
UnreadableCfg == Cfg(FALSE, "", "", "", "", "", "", 0, "")

SampleConfigs == {ExampleCfg, NoDestCfg, UnreadableCfg}

AllConfigs ==
  {Cfg(r, b, d, rp, t, u, pw, fi, "") :
     r \in BOOLEAN, b \in {"", "mybucket"}, d \in {"", "mydb"}, rp \in {"", "autogen"},
     t \in {"", "mytoken"}, u \in {"", "myuser"}, pw \in {"", "mypass"}, fi \in {0, 5}}

BadDest(cfg) == cfg.Bucket = "" /\ (cfg.Database = "" \/ cfg.RetentionPolicy = "")

ExampleBody ==
  [readable |-> TRUE,
   json |-> ("wifi" :> JInt(-64)) @@ ("rco2" :> JInt(419)) @@ ("pm01" :> JInt(4)) @@
            ("pm02" :> JInt(7)) @@ ("pm10" :> JInt(7)) @@ ("pm003_count" :> JInt(834)) @@
            ("tvoc_index" :> JInt(3)) @@ ("nox_index" :> JInt(2)) @@
            ("atmp" :> JFloat(3207)) @@ ("rhum" :> JInt(56))]
PartialBody ==
  [readable |-> TRUE,
   json |-> ("rco2" :> JInt(500)) @@ ("atmp" :> JInt(21)) @@ ("rhum" :> JNull) @@
            ("boot" :> JStr) @@ ("Ts" :> JTime(7))]
EmptyBody == [readable |-> TRUE, json |-> [k \in {} |-> JNull]]
MismatchBody == [readable |-> TRUE, json |-> ("rco2" :> JInt(419)) @@ ("wifi" :> JFloat(150))]
BadTsBody == [readable |-> TRUE, json |-> ("rco2" :> JInt(419)) @@ ("Ts" :> JStr)]
MalformedBody == [readable |-> TRUE, json |-> MalformedJSON]
UnreadableBody == [readable |-> FALSE, json |-> MalformedJSON]

AllBodies == {ExampleBody, PartialBody, EmptyBody, MismatchBody, BadTsBody, MalformedBody,
              UnreadableBody}

IdsOfLen(n) == [1..n -> IdChars]
AllIds == {AbsentId} \cup UNION {IdsOfLen(n) : n \in 1..MaxIdLen}

Req(id, body) == [id |-> id, body |-> body]
AllRequests == {Req(id, b) : id \in AllIds, b \in AllBodies}
SampleSeq ==
  <<Req(<<"a", ":", "b">>, ExampleBody), Req(<<"a", ":">>, PartialBody),
    Req(<<"a", "b">>, MalformedBody), Req(AbsentId, UnreadableBody)>>
SampleRequests == Range(SampleSeq)
SampleIndex(r) == CHOOSE i \in DOMAIN SampleSeq : SampleSeq[i] = r

\* handlers are interchangeable: one representative of each multiset of requests
Ordered(rs) == \A i, j \in DOMAIN rs : i < j => SampleIndex(rs[i]) <= SampleIndex(rs[j])

\* three sensors posting the example reading at once
LiveReqs ==
  <<Req(<<"a", ":", "b">>, ExampleBody), Req(<<"a", ":", "b">>, ExampleBody),
    Req(<<"a", ":", "b">>, ExampleBody)>>

\* ----------------------------------------------------------------------
\* State
\* ----------------------------------------------------------------------
VARIABLES
  cfgFile,      \* the configuration file given to the process
  reqs,         \* the requests the sensors will send, one per handler
  mainPc,       \* position of main()
  conn,         \* result of InfluxConnect
  notified,     \* signal.Notify has registered cancelCh
  cancelCh,     \* number of signals buffered in cancelCh
  signalled,    \* a termination signal has been delivered to the process
  ePc,          \* error-drain goroutine
  wPc,          \* Batch Writer goroutine
  lsPc,         \* ListenAndServe goroutine
  dataCh,       \* the handoff queue
  dataChClosed, \* close(dataCh) has been called
  dataPoint,    \* the Batch Writer's loop variable (<<>> when none)
  hPc,          \* position of each request handler
  hData,        \* each handler's local data
  status,       \* HTTP status of each response (0: none yet)
  clock,        \* wall clock read by time.Now()
  buffer,       \* store client: points accepted and not yet flushed
  inflight,     \* store client: a batch has been sent and the store has not answered
  lost,         \* points handed to a closed store client
  errorsCh,     \* number of errors waiting on writeAPI.Errors()
  errLog,       \* a write error has been logged
  closed,       \* influxClient.Close() has run
  enqueued,     \* history: sends on dataCh, in order
  written,      \* history: WritePoint calls, in order
  flushCalls,   \* history: Flush calls made by main after the signal
  handedAtSig   \* history: requests written when main received the signal

vars == <<cfgFile, reqs, mainPc, conn, notified, cancelCh, signalled, ePc, wPc, lsPc, dataCh,
          dataChClosed, dataPoint, hPc, hData, status, clock, buffer, inflight, lost,
          errorsCh, errLog, closed, enqueued, written, flushCalls, handedAtSig>>

mainVars == <<mainPc, conn, notified, cancelCh>>
goVars == <<ePc, wPc, lsPc>>
handlerVars == <<hPc, hData, status, clock>>
clientVars == <<buffer, inflight, lost, errorsCh, errLog, closed>>
histVars == <<enqueued, written, flushCalls, handedAtSig>>

Handlers == 1..Len(reqs)
NoConn == [err |-> FALSE, auth |-> "", writeDest |-> "", flushInterval |-> 0]
Alive == mainPc \notin {"exited", "fatal", "killed"}

InitState ==
  /\ mainPc = "load" /\ conn = NoConn /\ notified = FALSE /\ cancelCh = 0 /\ signalled = FALSE
  /\ ePc = "none" /\ wPc = "none" /\ lsPc = "none"
  /\ dataCh = <<>> /\ dataChClosed = FALSE /\ dataPoint = <<>>
  /\ hPc = [h \in Handlers |-> "idle"]
  /\ hData = [h \in Handlers |-> ZeroData]
  /\ status = [h \in Handlers |-> 0]
  /\ buffer = {} /\ inflight = FALSE /\ lost = {}
  /\ errorsCh = 0 /\ errLog = FALSE /\ closed = FALSE
  /\ enqueued = <<>> /\ written = <<>> /\ flushCalls = 0 /\ handedAtSig = {}

\* the concurrent scenarios take place within one reading of the clock; the
\* single-request ones below let it advance
Init ==
  /\ cfgFile \in SampleConfigs
  /\ reqs \in {rs \in [1..MaxRequests -> SampleRequests] : Ordered(rs)}
  /\ clock = MaxClock
  /\ InitState

\* one request of any shape, for the decoding and resolution properties
InitDecode ==
  /\ cfgFile \in {ExampleCfg, NoDestCfg, UnreadableCfg}
  /\ reqs \in [1..1 -> AllRequests]
  /\ clock = 1
  /\ InitState

\* every shape of configuration file, one request
InitConfig ==
  /\ cfgFile \in AllConfigs
  /\ reqs = <<SampleSeq[1]>>
  /\ clock = 1
  /\ InitState

InitLive ==
  /\ cfgFile \in {V1Cfg, NoDestCfg, UnreadableCfg}
  /\ reqs = LiveReqs
  /\ clock = MaxClock
  /\ InitState

\* ----------------------------------------------------------------------
\* main()
\* ----------------------------------------------------------------------
\* LoadConfiguration; log.Fatal when the file cannot be read or decoded
MainLoadConfiguration ==
  /\ mainPc = "load"
  /\ mainPc' = IF cfgFile.readable THEN "connect" ELSE "fatal"
  /\ UNCHANGED <<cfgFile, reqs, dataChClosed, conn, notified, cancelCh, signalled, goVars, dataCh, dataPoint,
                 handlerVars, clientVars, histVars>>

\* InfluxConnect(config); log.Fatal on InfluxWriteConfigError
MainInfluxConnect ==
  /\ mainPc = "connect"
  /\ LET r == InfluxConnect(cfgFile)
     IN IF r.err
        THEN mainPc' = "fatal" /\ conn' = conn
        ELSE mainPc' = "spawnErrors" /\ conn' = r
  /\ UNCHANGED <<cfgFile, reqs, dataChClosed, notified, cancelCh, signalled, goVars, dataCh, dataPoint,
                 handlerVars, clientVars, histVars>>

\* go func() { for err := range errorsCh ... }()
MainSpawnErrors ==
  /\ mainPc = "spawnErrors"
  /\ mainPc' = "notify"
  /\ ePc' = "range"
  /\ UNCHANGED <<cfgFile, reqs, dataChClosed, conn, notified, cancelCh, signalled, wPc, lsPc, dataCh, dataPoint,
                 handlerVars, clientVars, histVars>>

\* signal.Notify(cancelCh, SIGTERM, SIGINT); the router and dataCh are made
MainNotify ==
  /\ mainPc = "notify"
  /\ mainPc' = "spawnWriter"
  /\ notified' = TRUE
  /\ UNCHANGED <<cfgFile, reqs, dataChClosed, conn, cancelCh, signalled, goVars, dataCh, dataPoint,
                 handlerVars, clientVars, histVars>>

\* main goes on to start the listener without having started the writer loop
MainSpawnWriter_Skip ==
  /\ mainPc = "spawnWriter"
  /\ mainPc' = "spawnListener"
  /\ UNCHANGED <<cfgFile, reqs, dataChClosed, conn, notified, cancelCh, signalled, goVars, dataCh,
                 dataPoint, handlerVars, clientVars, histVars>>

\* go func() { for dataPoint := range dataCh ... }()
MainSpawnWriter ==
  /\ mainPc = "spawnWriter"
  /\ mainPc' = "spawnListener"
  /\ wPc' = "recv"
  /\ UNCHANGED <<cfgFile, reqs, dataChClosed, conn, notified, cancelCh, signalled, ePc, lsPc, dataCh, dataPoint,
                 handlerVars, clientVars, histVars>>

\* go func() { server.ListenAndServe() }()
MainSpawnListener ==
  /\ mainPc = "spawnListener"
  /\ mainPc' = "waitSig"
  /\ lsPc' = "spawned"
  /\ UNCHANGED <<cfgFile, reqs, dataChClosed, conn, notified, cancelCh, signalled, ePc, wPc, dataCh, dataPoint,
                 handlerVars, clientVars, histVars>>

\* the process exits as soon as the signal is taken from cancelCh
MainWaitSig_ExitNow ==
  /\ mainPc = "waitSig"
  /\ cancelCh > 0
  /\ cancelCh' = cancelCh - 1
  /\ mainPc' = "exited"
  /\ handedAtSig' = {written[i].h : i \in 1..Len(written)}
  /\ UNCHANGED <<cfgFile, reqs, dataChClosed, conn, notified, signalled, goVars, dataCh, dataPoint,
                 handlerVars, clientVars, enqueued, written, flushCalls>>

\* sig := <-cancelCh
MainWaitSig ==
  /\ mainPc = "waitSig"
  /\ cancelCh > 0
  /\ cancelCh' = cancelCh - 1
  /\ mainPc' = "flush"
  /\ handedAtSig' = {written[i].h : i \in 1..Len(written)}
  /\ UNCHANGED <<cfgFile, reqs, dataChClosed, conn, notified, signalled, goVars, dataCh, dataPoint,
                 handlerVars, clientVars, enqueued, written, flushCalls>>

\* writeAPI.Flush(): every buffered point is sent to the store
WriteAPIFlush ==
  /\ inflight' = (inflight \/ buffer # {})
  /\ buffer' = {}

\* line 211 without the Flush call
MainFlush_Skip ==
  /\ mainPc = "flush"
  /\ mainPc' = "deferFlush"
  /\ UNCHANGED <<cfgFile, reqs, dataChClosed, conn, notified, cancelCh, signalled, goVars, dataCh, dataPoint,
                 handlerVars, clientVars, histVars>>

\* the queue is closed before the flush, to let the Batch Writer finish
MainFlush_CloseQueue ==
  /\ mainPc = "flush"
  /\ mainPc' = "deferFlush"
  /\ WriteAPIFlush
  /\ flushCalls' = flushCalls + 1
  /\ dataChClosed' = TRUE
  /\ UNCHANGED <<cfgFile, reqs, conn, notified, cancelCh, signalled, goVars, dataCh, dataPoint,
                 handlerVars, lost, errorsCh, errLog, closed,
                 enqueued, written, handedAtSig>>

\* writeAPI.Flush() after the signal
MainFlush ==
  /\ mainPc = "flush"
  /\ mainPc' = "deferFlush"
  /\ WriteAPIFlush
  /\ flushCalls' = flushCalls + 1
  /\ UNCHANGED <<cfgFile, reqs, dataChClosed, conn, notified, cancelCh, signalled, goVars, dataCh, dataPoint,
                 handlerVars, lost, errorsCh, errLog, closed,
                 enqueued, written, handedAtSig>>

\* the two defers are registered in the other order: Close runs first
MainDeferredFlush_CloseFirst ==
  /\ mainPc = "deferFlush"
  /\ mainPc' = "deferClose"
  /\ WriteAPIFlush
  /\ closed' = TRUE
  /\ UNCHANGED <<cfgFile, reqs, dataChClosed, conn, notified, cancelCh, signalled, goVars, dataCh,
                 dataPoint, handlerVars, lost, errorsCh, errLog, histVars>>

\* defer writeAPI.Flush()
MainDeferredFlush ==
  /\ mainPc = "deferFlush"
  /\ mainPc' = "deferClose"
  /\ WriteAPIFlush
  /\ flushCalls' = flushCalls + 1
  /\ UNCHANGED <<cfgFile, reqs, dataChClosed, conn, notified, cancelCh, signalled, goVars, dataCh, dataPoint,
                 handlerVars, lost, errorsCh, errLog, closed,
                 enqueued, written, handedAtSig>>

\* defer influxClient.Close(): flushes what is buffered and closes the client
MainDeferredClose ==
  /\ mainPc = "deferClose"
  /\ mainPc' = "return"
  /\ WriteAPIFlush
  /\ closed' = TRUE
  /\ UNCHANGED <<cfgFile, reqs, dataChClosed, conn, notified, cancelCh, signalled, goVars, dataCh, dataPoint,
                 handlerVars, lost, errorsCh, errLog, histVars>>

\* main returns: the process exits and every goroutine stops with it
MainReturn ==
  /\ mainPc = "return"
  /\ mainPc' = "exited"
  /\ UNCHANGED <<cfgFile, reqs, dataChClosed, conn, notified, cancelCh, signalled, goVars, dataCh, dataPoint,
                 handlerVars, clientVars, histVars>>

\* a SIGINT or SIGTERM reaches the process: buffered in cancelCh (dropped
\* when it is full) once Notify has registered, the default action before.
\* Once main has taken a signal nothing reads cancelCh again, so later
\* signals change nothing the program observes and are left out.
Signal ==
  /\ Alive
  /\ mainPc \notin {"flush", "deferFlush", "deferClose", "return"}
  /\ signalled' = TRUE
  /\ IF notified
     THEN /\ cancelCh' = IF cancelCh < CancelChCap THEN cancelCh + 1 ELSE cancelCh
          /\ mainPc' = mainPc
     ELSE /\ mainPc' = "killed"
          /\ cancelCh' = cancelCh
  /\ UNCHANGED <<cfgFile, reqs, dataChClosed, conn, notified, goVars, dataCh, dataPoint,
                 handlerVars, clientVars, histVars>>

\* ----------------------------------------------------------------------
\* Goroutines started by main
\* ----------------------------------------------------------------------
\* server.ListenAndServe() binds and serves
ListenOk ==
  /\ Alive
  /\ lsPc = "spawned"
  /\ lsPc' = "listening"
  /\ UNCHANGED <<cfgFile, reqs, dataChClosed, mainVars, signalled, ePc, wPc, dataCh, dataPoint,
                 handlerVars, clientVars, histVars>>

\* the ListenAndServe error is logged with log.Fatal
ListenFail_Fatal ==
  /\ Alive
  /\ lsPc = "spawned"
  /\ lsPc' = "failed"
  /\ mainPc' = "fatal"
  /\ UNCHANGED <<cfgFile, reqs, dataChClosed, conn, notified, cancelCh, signalled, ePc, wPc, dataCh, dataPoint,
                 handlerVars, clientVars, histVars>>

\* server.ListenAndServe() returns an error, which is logged
ListenFail ==
  /\ Alive
  /\ lsPc = "spawned"
  /\ lsPc' = "failed"
  /\ UNCHANGED <<cfgFile, reqs, dataChClosed, mainVars, signalled, ePc, wPc, dataCh, dataPoint,
                 handlerVars, clientVars, histVars>>

\* the loop takes the next point only once the store has answered for the last
WriterRecv_WaitStore ==
  /\ Alive
  /\ wPc = "recv"
  /\ dataCh # <<>>
  /\ buffer = {} /\ ~inflight
  /\ dataPoint' = <<Head(dataCh)>>
  /\ dataCh' = Tail(dataCh)
  /\ wPc' = "write"
  /\ UNCHANGED <<cfgFile, reqs, dataChClosed, mainVars, signalled, ePc, lsPc, handlerVars, clientVars, histVars>>

\* for dataPoint := range dataCh: the loop takes the next value, and ends
\* once the channel is closed and empty
WriterRecv ==
  /\ Alive
  /\ wPc = "recv"
  /\ dataCh # <<>> \/ dataChClosed
  /\ IF dataCh # <<>>
     THEN /\ dataPoint' = <<Head(dataCh)>>
          /\ dataCh' = Tail(dataCh)
          /\ wPc' = "write"
     ELSE /\ wPc' = "done"
          /\ UNCHANGED <<dataCh, dataPoint>>
  /\ UNCHANGED <<cfgFile, reqs, dataChClosed, mainVars, signalled, ePc, lsPc, handlerVars, clientVars, histVars>>

\* the loop body never reaches WritePoint
WriterWrite_SkipWrite ==
  /\ Alive
  /\ wPc = "write"
  /\ dataPoint' = <<>>
  /\ wPc' = "recv"
  /\ UNCHANGED <<cfgFile, reqs, dataChClosed, mainVars, signalled, ePc, lsPc, dataCh, handlerVars,
                 clientVars, histVars>>

\* influx.NewPoint(...); writeAPI.WritePoint(influxPoint)
WriterWrite ==
  /\ Alive
  /\ wPc = "write"
  /\ LET e == dataPoint[1]
     IN /\ written' = Append(written, [h |-> e.h, p |-> NewPoint(e.d)])
        /\ IF closed
           THEN lost' = lost \cup {e.h} /\ buffer' = buffer
           ELSE buffer' = buffer \cup {e.h} /\ lost' = lost
  /\ dataPoint' = <<>>
  /\ wPc' = "recv"
  /\ UNCHANGED <<cfgFile, reqs, dataChClosed, mainVars, signalled, ePc, lsPc, dataCh, handlerVars,
                 inflight, errorsCh, errLog, closed,
                 enqueued, flushCalls, handedAtSig>>

\* the write error is logged with log.Fatal
ErrorsDrain_Fatal ==
  /\ Alive
  /\ ePc = "range"
  /\ errorsCh > 0
  /\ errorsCh' = errorsCh - 1
  /\ errLog' = TRUE
  /\ mainPc' = "fatal"
  /\ UNCHANGED <<cfgFile, reqs, dataChClosed, conn, notified, cancelCh, signalled, goVars, dataCh, dataPoint,
                 handlerVars, buffer, inflight, lost, closed, histVars>>

\* for err := range errorsCh { log.Error(...) }
ErrorsDrain ==
  /\ Alive
  /\ ePc = "range"
  /\ errorsCh > 0
  /\ errorsCh' = errorsCh - 1
  /\ errLog' = TRUE
  /\ UNCHANGED <<cfgFile, reqs, dataChClosed, mainVars, signalled, goVars, dataCh, dataPoint, handlerVars,
                 buffer, inflight, lost, closed, histVars>>

\* ----------------------------------------------------------------------
\* mainHandler, one invocation per request
\* ----------------------------------------------------------------------
\* the body is read but the unmarshal error does not end the handler
HandlerDecode_NoReturn(h) ==
  /\ Alive
  /\ lsPc = "listening"
  /\ hPc[h] = "idle"
  /\ IF ~reqs[h].body.readable
     THEN /\ hPc' = [hPc EXCEPT ![h] = "done"]
          /\ status' = [status EXCEPT ![h] = StatusBadRequest]
          /\ hData' = hData
     ELSE /\ hPc' = [hPc EXCEPT ![h] = "vars"]
          /\ status' = status
          /\ hData' = [hData EXCEPT ![h] = Unmarshal(reqs[h].body.json).data]
  /\ UNCHANGED <<cfgFile, reqs, dataChClosed, mainVars, signalled, goVars, dataCh, dataPoint, clock,
                 clientVars, histVars>>

\* b, err := io.ReadAll(r.Body); json.Unmarshal(b, &data); either error is
\* answered with 400 and ends the handler
HandlerDecode(h) ==
  /\ Alive
  /\ lsPc = "listening"
  /\ hPc[h] = "idle"
  /\ LET r == Unmarshal(reqs[h].body.json)
     IN IF ~reqs[h].body.readable \/ r.err
        THEN /\ hPc' = [hPc EXCEPT ![h] = "done"]
             /\ status' = [status EXCEPT ![h] = StatusBadRequest]
             /\ hData' = hData
        ELSE /\ hPc' = [hPc EXCEPT ![h] = "vars"]
             /\ status' = status
             /\ hData' = [hData EXCEPT ![h] = r.data]
  /\ UNCHANGED <<cfgFile, reqs, dataChClosed, mainVars, signalled, goVars, dataCh, dataPoint, clock,
                 clientVars, histVars>>

\* instanceId from mux.Vars(r); data.Id = instanceId; data.Ts = time.Now();
\* each reading of the clock is later than the one before, up to MaxClock
HandlerResolveId(h) ==
  /\ Alive
  /\ hPc[h] = "vars"
  /\ hData' = [hData EXCEPT ![h].Id = ResolveId(reqs[h].id), ![h].Ts = clock]
  /\ clock' = IF clock < MaxClock THEN clock + 1 ELSE clock
  /\ hPc' = [hPc EXCEPT ![h] = "send"]
  /\ UNCHANGED <<cfgFile, reqs, dataChClosed, mainVars, signalled, goVars, dataCh, dataPoint, status,
                 clientVars, histVars>>

\* a non-blocking send: the point is dropped when the channel is full
HandlerSend_NoBlock(h) ==
  /\ Alive
  /\ hPc[h] = "send"
  /\ IF Len(dataCh) < DataChCap
     THEN /\ dataCh' = Append(dataCh, [h |-> h, d |-> hData[h]])
          /\ enqueued' = Append(enqueued, [h |-> h, d |-> hData[h]])
     ELSE UNCHANGED <<dataCh, enqueued>>
  /\ hPc' = [hPc EXCEPT ![h] = "return"]
  /\ UNCHANGED <<cfgFile, reqs, dataChClosed, mainVars, signalled, goVars, dataPoint, hData, status, clock,
                 clientVars, written, flushCalls, handedAtSig>>

\* a send that never waits: a point still queued is replaced by the new one
HandlerSend_Overwrite(h) ==
  /\ Alive
  /\ hPc[h] = "send"
  /\ dataCh' = IF Len(dataCh) < DataChCap
               THEN Append(dataCh, [h |-> h, d |-> hData[h]])
               ELSE <<[h |-> h, d |-> hData[h]]>>
  /\ enqueued' = Append(enqueued, [h |-> h, d |-> hData[h]])
  /\ hPc' = [hPc EXCEPT ![h] = "return"]
  /\ UNCHANGED <<cfgFile, reqs, dataChClosed, mainVars, signalled, goVars, dataPoint, hData, status, clock,
                 clientVars, written, flushCalls, handedAtSig>>

\* dataChannel <- data: blocks while the channel is full, panics when it
\* is closed
HandlerSend(h) ==
  /\ Alive
  /\ hPc[h] = "send"
  /\ Len(dataCh) < DataChCap \/ dataChClosed
  /\ IF dataChClosed
     THEN /\ hPc' = [hPc EXCEPT ![h] = "panicked"]
          /\ UNCHANGED <<dataCh, enqueued>>
     ELSE /\ dataCh' = Append(dataCh, [h |-> h, d |-> hData[h]])
          /\ enqueued' = Append(enqueued, [h |-> h, d |-> hData[h]])
          /\ hPc' = [hPc EXCEPT ![h] = "return"]
  /\ UNCHANGED <<cfgFile, reqs, dataChClosed, mainVars, signalled, goVars, dataPoint, hData, status, clock,
                 clientVars, written, flushCalls, handedAtSig>>

\* the handler returns without writing: net/http answers 200 with no body
HandlerReturn(h) ==
  /\ Alive
  /\ hPc[h] = "return"
  /\ hPc' = [hPc EXCEPT ![h] = "done"]
  /\ status' = [status EXCEPT ![h] = StatusOK]
  /\ UNCHANGED <<cfgFile, reqs, dataChClosed, mainVars, signalled, goVars, dataCh, dataPoint, hData, clock,
                 clientVars, histVars>>

\* ----------------------------------------------------------------------
\* Store client and store (the write/flush/error-stream contract)
\* ----------------------------------------------------------------------
\* the flush interval elapses: the client sends what it has buffered
ClientAutoFlush ==
  /\ Alive
  /\ ~closed
  /\ buffer # {}
  /\ WriteAPIFlush
  /\ UNCHANGED <<cfgFile, reqs, dataChClosed, mainVars, signalled, goVars, dataCh, dataPoint, handlerVars,
                 lost, errorsCh, errLog, closed, histVars>>

\* the store accepts the points sent to it
StoreAck ==
  /\ Alive
  /\ inflight
  /\ inflight' = FALSE
  /\ UNCHANGED <<cfgFile, reqs, dataChClosed, mainVars, signalled, goVars, dataCh, dataPoint, handlerVars,
                 buffer, lost, errorsCh, errLog, closed, histVars>>

\* the write fails: the client reports one error on the error stream
StoreFail ==
  /\ Alive
  /\ ~closed
  /\ inflight
  /\ errorsCh < ErrChCap
  /\ inflight' = FALSE
  /\ errorsCh' = errorsCh + 1
  /\ UNCHANGED <<cfgFile, reqs, dataChClosed, mainVars, signalled, goVars, dataCh, dataPoint, handlerVars,
                 buffer, lost, errLog, closed, histVars>>

\* ----------------------------------------------------------------------
\* Specifications
\* ----------------------------------------------------------------------
Next ==
  \/ MainLoadConfiguration
  \/ MainInfluxConnect
  \/ MainSpawnErrors
  \/ MainNotify
  \/ MainSpawnWriter
  \/ MainSpawnListener
  \/ MainWaitSig
  \/ MainFlush
  \/ MainDeferredFlush
  \/ MainDeferredClose
  \/ MainReturn
  \/ Signal
  \/ ListenOk
  \/ ListenFail
  \/ WriterRecv
  \/ WriterWrite
  \/ ErrorsDrain
  \/ ClientAutoFlush
  \/ StoreAck
  \/ StoreFail
  \/ \E h \in Handlers : HandlerDecode(h)
  \/ \E h \in Handlers : HandlerResolveId(h)
  \/ \E h \in Handlers : HandlerSend(h)
  \/ \E h \in Handlers : HandlerReturn(h)

Spec == Init /\ [][Next]_vars

SpecDecode == InitDecode /\ [][Next]_vars

SpecConfig == InitConfig /\ [][Next]_vars

\* the Go scheduler runs every runnable goroutine; the store is not obliged
\* to answer, and no signal need arrive
Fairness ==
  /\ WF_vars(WriterRecv \/ WriterWrite)
  /\ \A h \in DOMAIN LiveReqs : WF_vars(HandlerSend(h) \/ HandlerReturn(h))

SpecLive == InitLive /\ [][Next]_vars /\ Fairness

TypeOK ==
  /\ mainPc \in {"load", "connect", "fatal", "killed", "spawnErrors", "notify", "spawnWriter",
                 "spawnListener", "waitSig", "flush", "deferFlush", "deferClose", "return",
                 "exited"}
  /\ cancelCh \in 0..CancelChCap
  /\ errorsCh \in 0..ErrChCap
  /\ Len(dataPoint) <= 1
  /\ \A h \in Handlers : status[h] \in {0, StatusOK, StatusBadRequest}

\* ----------------------------------------------------------------------
\* Properties
\* ----------------------------------------------------------------------
Ids(q) == {q[i].h : i \in 1..Len(q)}
Count(q, h) == Cardinality({i \in 1..Len(q) : q[i].h = h})

\* what the sensor submitted, read off the request itself
Unreadable(r) == ~r.body.readable
Malformed(r) == Unreadable(r) \/ IsMalformed(r.body.json)
WellFormed(r) == ~Malformed(r) /\ ~TypeMismatch(r.body.json)
SubmittedInt(r, k) ==
  IF k \in DOMAIN r.body.json /\ r.body.json[k].t = "int" THEN r.body.json[k].v ELSE 0
SubmittedTemp(r) ==
  IF "atmp" \notin DOMAIN r.body.json THEN 0
  ELSE IF r.body.json["atmp"].t = "float" THEN r.body.json["atmp"].v
  ELSE IF r.body.json["atmp"].t = "int" THEN 100 * r.body.json["atmp"].v
  ELSE 0
SubmittedFields(r) ==
  [wifi |-> SubmittedInt(r, "wifi"), co2 |-> SubmittedInt(r, "rco2"),
   pm1 |-> SubmittedInt(r, "pm01"), pm25 |-> SubmittedInt(r, "pm02"),
   pm10 |-> SubmittedInt(r, "pm10"), pm003 |-> SubmittedInt(r, "pm003_count"),
   tvoc |-> SubmittedInt(r, "tvoc_index"), nox |-> SubmittedInt(r, "nox_index"),
   temp |-> SubmittedTemp(r), rel_humidity |-> SubmittedInt(r, "rhum")]

\* the identifier the route convention "<prefix>:<identifier>" asks for
Colons(id) == Cardinality({i \in 1..Len(id) : id[i] = Delim})
AfterColon(id) == SubSeq(id, (CHOOSE i \in 1..Len(id) : id[i] = Delim) + 1, Len(id))
ExpectedId(id) == IF id # AbsentId /\ Colons(id) = 1 THEN AfterColon(id) ELSE Sentinel

Quiescent ==
  /\ \A h \in Handlers : hPc[h] = "done"
  /\ dataCh = <<>>
  /\ wPc = "recv"

\* points that have left the store client's buffer towards the store
Covered == Ids(written) \ (buffer \cup lost)

\* C1: while no termination signal is delivered, every well-formed request
\* is enqueued once and written once with its own tag and fields, and once
\* all handlers are done and the queue is drained the number of WritePoint
\* calls equals the number of well-formed requests.
C1_ExactlyOnce ==
  ~signalled =>
    /\ \A h \in Handlers : Count(written, h) <= 1 /\ Count(enqueued, h) <= 1
    /\ \A i \in 1..Len(written) :
         LET h == written[i].h
         IN /\ WellFormed(reqs[h])
            /\ Count(enqueued, h) = 1
            /\ written[i].p.tags.id = ExpectedId(reqs[h].id)
            /\ written[i].p.fields = SubmittedFields(reqs[h])
    /\ Quiescent => Len(written) = Cardinality({h \in Handlers : WellFormed(reqs[h])})

C1_Witness ==
  /\ ~signalled
  /\ Quiescent
  /\ Len(written) = Len(reqs)
  /\ \E i, j \in 1..Len(written) : written[i].p.tags # written[j].p.tags

\* C2 as stated: at exit every point that was enqueued or written has been
\* covered by a flush.
C2_NoPointLost ==
  mainPc = "exited" => (Ids(enqueued) \cup Ids(written)) \subseteq Covered

\* C2 amended: at exit every point that had been handed to the store client
\* when main received the signal has been covered by a flush.
C2_HandedPointsFlushed ==
  mainPc = "exited" => handedAtSig \subseteq Covered

C2_Witness ==
  /\ mainPc = "exited"
  /\ handedAtSig # {}
  /\ inflight
  /\ Ids(enqueued) # Ids(written)

\* C3: once main has taken the signal from cancelCh and passed line 211,
\* Flush has been called, so the process never exits by the signal path
\* without a forced flush.
C3_FlushBeforeExit ==
  mainPc \in {"deferFlush", "deferClose", "return", "exited"} => flushCalls >= 1

C3_Witness ==
  /\ mainPc = "exited"
  /\ flushCalls >= 1
  /\ signalled
  /\ lsPc = "listening"

\* C4: under fair scheduling of the Batch Writer and the handlers, and with
\* no obligation on the store to answer, a handler that has reached the
\* send eventually gets its 200 unless a termination signal is delivered.
C4_NeverBlocks ==
  \A h \in DOMAIN LiveReqs : (hPc[h] = "send") ~> (status[h] = StatusOK \/ signalled)

C4_Witness ==
  /\ ~signalled
  /\ Len(reqs) = Len(LiveReqs)
  /\ \A h \in Handlers : status[h] = StatusOK
  /\ inflight
  /\ ~errLog /\ errorsCh = 0

\* C5: a request whose body is unreadable or not JSON ends with 400, is
\* never enqueued or written, and no step of its handler changes the queue
\* or the writes.
C5_MalformedRejected ==
  /\ [](\A h \in Handlers :
          Malformed(reqs[h]) =>
            /\ status[h] \in {0, StatusBadRequest}
            /\ hPc[h] \in {"idle", "done"}
            /\ hPc[h] = "done" => status[h] = StatusBadRequest
            /\ h \notin Ids(enqueued) \cup Ids(dataCh) \cup Ids(written))
  /\ [][\A h \in Handlers :
          (Malformed(reqs[h]) /\ hPc'[h] # hPc[h]) =>
             UNCHANGED <<dataCh, dataPoint, enqueued, written, buffer>>]_vars

C5_Witness ==
  \E h \in Handlers :
    /\ ~Unreadable(reqs[h]) /\ Malformed(reqs[h])
    /\ hPc[h] = "done" /\ status[h] = StatusBadRequest
    /\ Len(written) > 0

\* C6: the queue never holds more than its capacity, a handler answers 200
\* only after its single enqueue, a handler at the send does not move while
\* the queue is full, and every enqueued point is on the queue, with the
\* Batch Writer, or written.
C6_BlockingEnqueue ==
  /\ [](/\ Len(dataCh) <= DataChCap
        /\ \A h \in Handlers :
             /\ Count(enqueued, h) <= 1
             /\ status[h] = StatusOK => Count(enqueued, h) = 1
             /\ (hPc[h] = "done" /\ WellFormed(reqs[h])) =>
                  (status[h] = StatusOK /\ Count(enqueued, h) = 1)
        /\ Len(enqueued) = Len(dataCh) + Len(dataPoint) + Len(written)
        /\ Ids(enqueued) = Ids(dataCh) \cup Ids(dataPoint) \cup Ids(written))
  /\ [][\A h \in Handlers :
          (hPc[h] = "send" /\ Len(dataCh) >= DataChCap) =>
             /\ hPc'[h] = "send"
             /\ dataCh' = dataCh \/ dataCh' = Tail(dataCh)]_vars

C6_Witness ==
  \E h, g \in Handlers :
    /\ hPc[h] = "send" /\ Len(dataCh) = DataChCap
    /\ status[g] = StatusOK
    /\ dataCh[1].h = g

\* C7: every enqueued point and every written tag has a non-empty sensorId.
C7_SensorIdNonEmpty ==
  /\ \A i \in 1..Len(enqueued) : enqueued[i].d.Id # <<>>
  /\ \A i \in 1..Len(written) : written[i].p.tags.id # <<>>

\* C8: a handler past the resolution holds the part after the delimiter
\* when the id has exactly one ':' and "null" otherwise, and that is the
\* tag of the point it produces.
C8_IdResolution ==
  /\ \A h \in Handlers :
       hPc[h] \in {"send", "return"} \/ (hPc[h] = "done" /\ status[h] = StatusOK) =>
         hData[h].Id = ExpectedId(reqs[h].id)
  /\ \A i \in 1..Len(written) : written[i].p.tags.id = ExpectedId(reqs[written[i].h].id)

C8_Witness ==
  /\ Len(written) = 1
  /\ Colons(reqs[1].id) = 1
  /\ Len(reqs[1].id) = MaxIdLen
  /\ written[1].p.tags.id = <<"b">>

\* the status a request gets, from the request alone
ExpectedStatus(r) == IF WellFormed(r) THEN StatusOK ELSE StatusBadRequest

\* C9: reporting or logging a store write error changes nothing but the
\* error stream and the log; every response status is determined by the
\* request alone, and no point is written twice.
C9_WriteErrorsOnlyLogged ==
  /\ [](\A h \in Handlers :
          /\ status[h] \in {0, ExpectedStatus(reqs[h])}
          /\ Count(written, h) <= 1)
  /\ [][(errorsCh' # errorsCh \/ errLog' # errLog) =>
          UNCHANGED <<mainPc, ePc, wPc, lsPc, hPc, status, dataCh, dataPoint, enqueued,
                      written, buffer>>]_vars

C9_Witness ==
  /\ errLog
  /\ Alive /\ mainPc = "waitSig" /\ ~signalled
  /\ wPc = "recv"
  /\ Len(written) >= 2
  /\ buffer # {}
  /\ \A h \in Handlers : status[h] = ExpectedStatus(reqs[h])

\* C10: with neither a bucket nor a database and retention policy, main
\* never gets past InfluxConnect: no goroutine is started, the listener is
\* never bound and no request is handled.
C10_NoDestinationFailsStartup ==
  BadDest(cfgFile) =>
    /\ mainPc \in {"load", "connect", "fatal", "killed"}
    /\ ePc = "none" /\ wPc = "none" /\ lsPc = "none"
    /\ ~notified
    /\ \A h \in Handlers : hPc[h] = "idle" /\ status[h] = 0
    /\ enqueued = <<>> /\ written = <<>>

C10_Witness ==
  /\ cfgFile.readable
  /\ BadDest(cfgFile)
  /\ cfgFile.Database # "" /\ cfgFile.Token # ""
  /\ mainPc = "fatal"

\* C11: once InfluxConnect has returned a client, the credential is the
\* token whenever one is set and username:password only without a token,
\* and the destination is the bucket whenever one is set and
\* database/retention-policy only with an empty bucket and both non-empty.
C11_ConfigPrecedence ==
  conn # NoConn =>
    /\ cfgFile.Token # "" => conn.auth = cfgFile.Token
    /\ (cfgFile.Token = "" /\ cfgFile.Username # "" /\ cfgFile.Password # "") =>
         conn.auth = cfgFile.Username \o ":" \o cfgFile.Password
    /\ (cfgFile.Token = "" /\ (cfgFile.Username = "" \/ cfgFile.Password = "")) =>
         conn.auth = ""
    /\ cfgFile.Bucket # "" => conn.writeDest = cfgFile.Bucket
    /\ cfgFile.Bucket = "" =>
         /\ cfgFile.Database # "" /\ cfgFile.RetentionPolicy # ""
         /\ conn.writeDest = cfgFile.Database \o "/" \o cfgFile.RetentionPolicy

C11_Witness ==
  /\ mainPc = "waitSig"
  /\ cfgFile.Username # "" /\ cfgFile.Password # ""
  /\ cfgFile.Database # "" /\ cfgFile.RetentionPolicy # ""
  /\ conn.auth = "mytoken"
  /\ conn.writeDest = "mybucket"

\* the entry of a history for the request of handler h
EntryOf(q, h) == q[CHOOSE i \in 1..Len(q) : q[i].h = h]

FieldNames ==
  {"wifi", "co2", "pm1", "pm25", "pm10", "pm003", "tvoc", "nox", "temp", "rel_humidity"}

C13_MeasurementPrefixed ==
  \A i \in 1..Len(written) :
    written[i].p.measurement =
      IF cfgFile.MeasurementPrefix # ""
      THEN cfgFile.MeasurementPrefix \o "air_quality"
      ELSE "air_quality"

\* the lifecycle state of the process, read off the position of main()
Phase(pc) ==
  CASE pc \in {"load", "connect", "spawnErrors", "notify", "spawnWriter", "spawnListener"}
         -> "Initializing"
    [] pc = "waitSig" -> "Serving"
    [] pc \in {"flush", "deferFlush", "deferClose", "return"} -> "Draining"
    [] pc = "exited" -> "Terminated"
    [] pc \in {"fatal", "killed"} -> "Failed"

\* C14: the lifecycle only steps Initializing -> Serving -> Draining ->
\* Terminated, or Initializing -> abnormal exit (log.Fatal, or a signal's
\* default action before Notify); Serving is left only by taking a
\* termination signal from cancelCh, and Terminated is entered only from
\* Draining once the forced flush has been called.
C14_LifecycleForward ==
  [][/\ Phase(mainPc') # Phase(mainPc) =>
          <<Phase(mainPc), Phase(mainPc')>> \in
             {<<"Initializing", "Serving">>, <<"Serving", "Draining">>,
              <<"Draining", "Terminated">>, <<"Initializing", "Failed">>}
     /\ (Phase(mainPc) = "Serving" /\ Phase(mainPc') # "Serving") =>
          signalled /\ cancelCh > 0 /\ cancelCh' = cancelCh - 1
     /\ (Phase(mainPc') = "Terminated" /\ Phase(mainPc) # "Terminated") =>
          flushCalls >= 1 /\ closed]_vars

C14_Witness ==
  /\ mainPc = "exited"
  /\ signalled
  /\ flushCalls = 2
  /\ Len(written) >= 1

\* main waits for a signal and ListenAndServe has bound or returned
Serving == mainPc = "waitSig" /\ lsPc # "spawned"

\* C15: whenever the process is Serving, the HTTP listener is bound and
\* accepting and the Batch Writer and the error-drain loop are running; a
\* listener that failed to bind or serve does not leave the process Serving.
C15_ServingHasListener ==
  Serving =>
    /\ lsPc = "listening"
    /\ wPc \in {"recv", "write"}
    /\ ePc = "range"

\* the requests of a history, in its order
Order(q) == [i \in 1..Len(q) |-> q[i].h]

\* C16: the points written, then the one the Batch Writer holds, then the
\* ones on the queue are exactly the points enqueued, in the order of the
\* enqueues: writes happen in FIFO order, each after its own enqueue and
\* dequeue, and no point is written that was not enqueued.
C16_FIFO ==
  /\ Order(enqueued) = Order(written) \o Order(dataPoint) \o Order(dataCh)
  /\ \A i \in 1..Len(written) :
       /\ written[i].h = enqueued[i].h
       /\ written[i].p.tags.id = enqueued[i].d.Id
       /\ written[i].p.ts = enqueued[i].d.Ts
  /\ \A h \in Handlers : hPc[h] \in {"idle", "vars", "send"} => h \notin Ids(enqueued)

C16_Witness ==
  /\ Len(written) = 2
  /\ Order(enqueued) = <<2, 1>>
  /\ Order(written) = <<2, 1>>

\* C17: nothing closes the handoff queue, so while the process lives the
\* Batch Writer, once started, is in its loop (receiving, or writing the
\* point it received) and takes a queued point whenever it is at the
\* receive, and no handler's send meets a closed queue.
C17_QueueNeverClosed ==
  /\ ~dataChClosed
  /\ wPc \in {"none", "recv", "write"}
  /\ Phase(mainPc) \in {"Serving", "Draining", "Terminated"} => wPc \in {"recv", "write"}
  /\ \A h \in Handlers : hPc[h] # "panicked"
  /\ (Alive /\ wPc = "recv" /\ dataCh # <<>>) => ENABLED WriterRecv

C17_Witness ==
  /\ mainPc = "return"
  /\ closed
  /\ wPc = "recv"
  /\ dataCh # <<>>
  /\ \E h \in Handlers : hPc[h] = "send"

\* C18: the error-drain loop and the Batch Writer are started before the
\* listener goroutine is, so whenever a handler runs or a point has been
\* enqueued the queue has its consumer and the error stream its reader.
C18_ConsumersBeforeListener ==
  /\ lsPc # "none" => ePc = "range" /\ wPc \in {"recv", "write"}
  /\ (\E h \in Handlers : hPc[h] # "idle") => ePc = "range" /\ wPc \in {"recv", "write"}
  /\ (enqueued # <<>> \/ dataCh # <<>>) => wPc \in {"recv", "write"}

C18_Witness ==
  /\ mainPc = "waitSig"
  /\ lsPc = "listening"
  /\ ePc = "range"
  /\ wPc = "recv"
  /\ Len(enqueued) = 1
  /\ dataCh # <<>>

\* C19: after the signal main calls Flush, then the deferred Flush, then
\* Close, then exits: the client is closed only after both Flush calls, no
\* Flush is called on a closed client, and the exit follows Close.
\* Meanwhile handlers and the Batch Writer are not stopped: a handler can
\* still start, a send with room in the queue can still complete, and a
\* pending WritePoint can still be made.
C19_ShutdownOrder ==
  /\ [](/\ Phase(mainPc) \in {"Initializing", "Serving", "Failed"} =>
              flushCalls = 0 /\ ~closed
        /\ mainPc = "deferFlush" => flushCalls = 1 /\ ~closed
        /\ mainPc = "deferClose" => flushCalls = 2 /\ ~closed
        /\ mainPc \in {"return", "exited"} => flushCalls = 2 /\ closed
        /\ Phase(mainPc) = "Draining" =>
             /\ wPc = "write" => ENABLED WriterWrite
             /\ \A h \in Handlers :
                  /\ (hPc[h] = "send" /\ Len(dataCh) < DataChCap) => ENABLED HandlerSend(h)
                  /\ (hPc[h] = "idle" /\ lsPc = "listening") => ENABLED HandlerDecode(h))
  /\ [][/\ flushCalls' # flushCalls => ~closed /\ ~closed' /\ flushCalls' = flushCalls + 1
        /\ closed => closed'
        /\ (closed' /\ ~closed) => flushCalls = 2 /\ mainPc = "deferClose"]_vars

C19_Witness ==
  /\ mainPc = "exited"
  /\ closed
  /\ flushCalls = 2
  /\ lost # {}
  /\ \E h \in Handlers : hPc[h] = "send"

====
